---- MODULE Spec2Model ----
(***************************************************************************)
(* Model of the customer-message Lambda of the e-commerce support          *)
(* simulator (lambda/customerMessage/index.ts): module initialisation, the *)
(* lazily created orchestrator promise, the credential fetch, and the      *)
(* per-record loop of the SQS handler.  JavaScript runs each piece of code *)
(* between two awaits to completion, so every action below is one such     *)
(* piece: the code from an invocation or a promise settlement up to the    *)
(* next await (or the return / throw of the handler).                      *)
(***************************************************************************)
EXTENDS Integers, Sequences, FiniteSets, TLC

(* ------------------------------ bounds --------------------------------- *)
MaxInv == 2        \* handler invocations in one process
MaxRecords == 2    \* records over all batches of the process

(* ----------------------------- constants ------------------------------- *)
QueueUrl == "queue-url"            \* a configured process.env.QUEUE_URL
Undefined == "undefined"           \* JavaScript undefined
ApiKeys == {"k1"}                  \* secrets the parameter store can hold
SSMValues == ApiKeys \cup {""}     \* result.Parameter?.Value ("" = no value)
Outputs == {"o1", "o2"}            \* orchestratorResponse.output values
InitError == "Failed to retrieve API key"
QueueUrlError == "QUEUE_URL environment variable is not set"

orderManagementAgent == "orderManagementAgent"
productInfoAgent == "productInfoAgent"
humanAgent == "Human Agent"

(* Record bodies, as token sequences of the JSON text. *)
BodyValid == <<"{", "sessionId", "s1", "message", "m1", "}">>
BodyNoMessage == <<"{", "sessionId", "s1", "}">>
BodyNull == <<"null">>
BodyTruncated == <<"{", "sessionId">>
BodyNumber == <<"5">>
BodyUnprintable ==
  <<"{", "sessionId", "s1", "message", "{", "toString", "s1", "}", "}">>
Bodies == {BodyValid, BodyNoMessage, BodyNull, BodyTruncated, BodyNumber,
           BodyUnprintable}

Batches(n) == UNION {[1..k -> Bodies] : k \in 0..n}

VARIABLES
  env,                  \* process.env.QUEUE_URL ("" when not set)
  modulePc,             \* "loaded" | "crashed": outcome of module evaluation
  apiKey,               \* let apiKey ("" = null)
  orchestrator,         \* let orchestrator (id 0 = null)
  orchestratorPromise,  \* "null" | "pending" | "fulfilled" | "rejected"
  ssmInFlight,          \* ssmClient.send calls not yet settled
  keySettled,           \* settled getApiKeyFromSSM promises whose await at
                        \* line 57 has not resumed yet: a key or "rejected"
  fetches,              \* ssmClient.send calls issued so far
  ssmErrors,            \* errors logged by getApiKeyFromSSM (line 48)
  constructed,          \* new MultiAgentOrchestrator calls so far
  handlers,             \* the handler invocations of the process
  history,              \* the chat history table: (session, agent) -> pairs
  escalations,          \* payloads published by the human agent
  host                  \* the surroundings of the process: the invocations,
                        \* records and bodies the host delivers, and whether
                        \* writes to the chat history table can fail

vars == <<env, modulePc, apiKey, orchestrator, orchestratorPromise,
          ssmInFlight, keySettled, fetches, ssmErrors, constructed, handlers,
          history, escalations, host>>

Invs == 1..MaxInv

(* ------------------------------- JSON ---------------------------------- *)
PropNames == {"sessionId", "message", "destination"}

\* A JSON text is the list of its tokens, commas, colons and quotes left
\* out.  A token is punctuation, one of the literals below, or else a
\* string (a string whose content is spelled like a literal is not
\* representable).
Punctuation == {"{", "}", "[", "]"}
Numerals == {"0", "1", "5"}
Literals == {"null", "true", "false"} \cup Numerals

IsString(tok) == tok \notin Punctuation \cup Literals

\* The position after the JSON value that starts at position i of toks, or
\* 0 when no value starts there: a scalar token, an array of values, or an
\* object of members (a string key and a value).
RECURSIVE ValueEnd(_, _), ElementsEnd(_, _), MembersEnd(_, _)
ValueEnd(toks, i) ==
  IF i > Len(toks) THEN 0
  ELSE IF toks[i] = "[" THEN ElementsEnd(toks, i + 1)
  ELSE IF toks[i] = "{" THEN MembersEnd(toks, i + 1)
  ELSE IF toks[i] \in Punctuation THEN 0
  ELSE i + 1

\* The position after the "]" of the array whose next element, or "]", is
\* at position i; 0 when the array is malformed.
ElementsEnd(toks, i) ==
  IF i > Len(toks) THEN 0
  ELSE IF toks[i] = "]" THEN i + 1
  ELSE LET e == ValueEnd(toks, i) IN
       IF e = 0 THEN 0 ELSE ElementsEnd(toks, e)

\* The position after the "}" of the object whose next key, or "}", is at
\* position i; 0 when the object is malformed.
MembersEnd(toks, i) ==
  IF i > Len(toks) THEN 0
  ELSE IF toks[i] = "}" THEN i + 1
  ELSE IF ~IsString(toks[i]) THEN 0
  ELSE LET e == ValueEnd(toks, i + 1) IN
       IF e = 0 THEN 0 ELSE MembersEnd(toks, e)

\* The text is exactly one JSON value.
ValidJSON(text) == ValueEnd(text, 1) = Len(text) + 1

\* The value at positions i..(e - 1): its token when it is a scalar, its
\* token list when it is an array or an object.
ValueAt(toks, i, e) == IF e = i + 1 THEN toks[i] ELSE SubSeq(toks, i, e - 1)

\* Value of property name among the members of a valid object from
\* position i on, found being the value of an earlier member of that name:
\* the last occurrence wins.
RECURSIVE MemberValue(_, _, _, _)
MemberValue(toks, i, name, found) ==
  IF toks[i] = "}" THEN found
  ELSE LET e == ValueEnd(toks, i + 1) IN
       MemberValue(toks, e, name,
                   IF toks[i] = name THEN ValueAt(toks, i + 1, e) ELSE found)

\* Position of the value of property name among the members of a valid
\* object from position i on (the last occurrence), found when there is none.
RECURSIVE MemberPos(_, _, _, _)
MemberPos(toks, i, name, found) ==
  IF toks[i] = "}" THEN found
  ELSE MemberPos(toks, ValueEnd(toks, i + 1), name,
                 IF toks[i] = name THEN i + 1 ELSE found)

\* Conversion to a string, as a template literal does it, of the parsed
\* value at position i throws a TypeError: an object with an own property
\* toString (never callable in parsed JSON, and valueOf returns no
\* primitive), or an array whose join meets such an element.  An object
\* without it prints as [object Object], null in an array as nothing.
RECURSIVE ToStringThrows(_, _), JoinThrows(_, _)
ToStringThrows(toks, i) ==
  IF toks[i] = "{" THEN MemberPos(toks, i + 1, "toString", 0) # 0
  ELSE IF toks[i] = "[" THEN JoinThrows(toks, i + 1)
  ELSE FALSE

\* The same for the elements of an array from position i on.
JoinThrows(toks, i) ==
  IF toks[i] = "]" THEN FALSE
  ELSE ToStringThrows(toks, i) \/ JoinThrows(toks, ValueEnd(toks, i))

\* Value of property name of the valid object text: undefined when absent.
PropertyOf(text, name) == MemberValue(text, 2, name, Undefined)

\* JSON.parse: a SyntaxError, null, an object, or another value (a number,
\* string, boolean or array, which has none of the properties read).
JSONParse(text) ==
  IF ~ValidJSON(text)
    THEN [threw |-> TRUE, isNull |-> FALSE, obj |-> [p \in PropNames |-> Undefined]]
  ELSE IF text = <<"null">>
    THEN [threw |-> FALSE, isNull |-> TRUE, obj |-> [p \in PropNames |-> Undefined]]
  ELSE IF text[1] = "{"
    THEN [threw |-> FALSE, isNull |-> FALSE,
          obj |-> [p \in PropNames |-> PropertyOf(text, p)]]
  ELSE [threw |-> FALSE, isNull |-> FALSE, obj |-> [p \in PropNames |-> Undefined]]

\* JSON.stringify of {destination, message}: undefined properties are left out.
JSONStringify(obj) ==
  <<"{">>
  \o (IF obj.destination = Undefined THEN <<>> ELSE <<"destination", obj.destination>>)
  \o (IF obj.message = Undefined THEN <<>> ELSE <<"message", obj.message>>)
  \o <<"}">>

(* ------------------------- handler invocations ------------------------- *)
NoResult == [kind |-> "none", message |-> <<>>]

IdleHandler ==
  [pc |-> "idle",          \* idle | awaitInit | awaitRoute | awaitSend | done | failed
   Records |-> <<>>,       \* event.Records (the bodies)
   idx |-> 0,              \* position of the for loop (1-based)
   orchestrator |-> 0,     \* const orchestrator = await orchestratorPromise
   sawPromise |-> "null",  \* orchestratorPromise as read at line 103
   startedInit |-> FALSE,  \* this invocation called initializeOrchestrator
   events |-> <<>>,        \* calls, settlements and console.error, in order
   result |-> NoResult]    \* value returned / error thrown to the host

Event(ev, rec, val) == [ev |-> ev, rec |-> rec, val |-> val]

\* Line 122: the template literal of console.log converts sessionId and
\* body.message to strings, which throws for some parsed values.
LogLineThrows(text) ==
  /\ text[1] = "{"
  /\ \E name \in {"sessionId", "message"} :
       LET at == MemberPos(text, 2, name, 0) IN
       at # 0 /\ ToStringThrows(text, at)

\* Lines 119-122: JSON.parse(record.body), body.sessionId, the log line.
\* Reading a property of null is a TypeError.
ReadRecord(body) ==
  LET p == JSONParse(body) IN
  IF p.threw THEN [threw |-> TRUE, error |-> "SyntaxError",
                   message |-> Undefined, sessionId |-> Undefined]
  ELSE IF p.isNull \/ LogLineThrows(body)
    THEN [threw |-> TRUE, error |-> "TypeError",
          message |-> Undefined, sessionId |-> Undefined]
  ELSE [threw |-> FALSE, error |-> "",
        message |-> p.obj.message, sessionId |-> p.obj.sessionId]

\* ReadRecord of each body the host delivers, computed once.
RecordsRead == [b \in Bodies |-> ReadRecord(b)]

\* Lines 119-122 for one record.
ParseRecord(body) ==
  IF body \in Bodies THEN RecordsRead[body] ELSE ReadRecord(body)

\* Lines 124-128: routeRequest(body.message, sessionId, sessionId).
RouteRequestArgs(p) == <<p.message, p.sessionId, p.sessionId>>

\* Variant reading a property the response does not have.
CustomerMessageWrongField(output) ==
  [p \in PropNames |-> IF p = "destination" THEN "customer" ELSE Undefined]

\* Lines 132-135.
CustomerMessage(output) ==
  [p \in PropNames |->
     IF p = "destination" THEN "customer"
     ELSE IF p = "message" THEN output
     ELSE Undefined]

\* Lines 138-141: the SendMessageCommand input, as <<QueueUrl, MessageBody>>.
SendMessageCommand(queueUrl, output) ==
  <<queueUrl>> \o JSONStringify(CustomerMessage(output))

\* Variant counting only the records whose body parsed.
SummaryOfParsed(records) ==
  [kind |-> "returned",
   message |-> <<"Processed ",
                 ToString(Cardinality({i \in 1..Len(records) :
                                         ~ParseRecord(records[i]).threw})),
                 " messages">>]

\* Lines 151-153.
Summary(records) ==
  [kind |-> "returned",
   message |-> <<"Processed ", ToString(Len(records)), " messages">>]

Thrown(error) == [kind |-> "threw", message |-> <<error>>]

\* Variant with JSON.parse outside the try block: a SyntaxError escapes.
CaughtAfterParse(error) == error # "SyntaxError"

\* Lines 145-148: catch (error) catches whatever the try block threw.
Caught(error) == TRUE

\* Variant of the catch block that swallows the error without logging it.
LogErrorSilent(hs, rec, error) == hs

\* Line 146.
LogError(hs, rec, error) ==
  [hs EXCEPT !.events = Append(@, Event("error", rec, <<error>>))]

\* Variant iterating the batch from its last record to its first.
RecordAtReversed(records, i) == records[Len(records) + 1 - i]

\* Line 116: the i-th record the for-of loop visits.
RecordAt(records, i) == records[i]

\* The for loop from record i up to its next await: a record whose body
\* does not parse is logged and skipped; the first one that parses has
\* routeRequest called; after the last record the handler returns.
RECURSIVE ProcessFrom(_, _)
ProcessFrom(hs, i) ==
  IF i > Len(hs.Records)
    THEN [hs EXCEPT !.pc = "done", !.idx = i, !.result = Summary(hs.Records)]
  ELSE LET p == ParseRecord(RecordAt(hs.Records, i)) IN
       IF p.threw
         THEN IF Caught(p.error)
                THEN ProcessFrom(LogError(hs, i, p.error), i + 1)
                ELSE [hs EXCEPT !.pc = "failed", !.idx = i,
                                !.result = Thrown(p.error)]
       ELSE [hs EXCEPT !.pc = "awaitRoute", !.idx = i,
                       !.events = Append(@, Event("route", i, RouteRequestArgs(p)))]

\* Variant of the catch block that processes the failed record again.
OnRecordErrorRetry(hs, i, error) == ProcessFrom(LogError(hs, i, error), i)

\* A failure of the awaited call of record i (lines 124 or 143).
OnRecordError(hs, i, error) ==
  IF Caught(error)
    THEN ProcessFrom(LogError(hs, i, error), i + 1)
    ELSE [hs EXCEPT !.pc = "failed", !.result = Thrown(error)]

(* ------------------- the orchestrator's routeRequest ------------------- *)
\* Line 72: MAX_MESSAGE_PAIRS_PER_AGENT.
MAX_MESSAGE_PAIRS_PER_AGENT == 10

\* Variant where the configured window is not passed on and the store uses
\* a larger one.
MaxPairsLarger == MAX_MESSAGE_PAIRS_PER_AGENT + 1

\* The window of pairs kept per (session, agent): the value given to the
\* orchestrator's configuration at line 72.
HistoryWindow == MAX_MESSAGE_PAIRS_PER_AGENT

\* Line 120: body.sessionId, undefined when the parsed value has none.
Sessions == {"s1", Undefined}
Agents == {orderManagementAgent, productInfoAgent, humanAgent}
HistoryKeys == Sessions \X Agents

\* The acknowledgement the human agent answers with.
HumanAck == "ack"

\* The outputs an agent can answer a message with.
AgentOutputs(a) ==
  IF a = orderManagementAgent THEN {"o1"}
  ELSE IF a = productInfoAgent THEN {"o2"}
  ELSE {HumanAck}

\* The agents registered with orchestrator o: the classifier's choices.
Registered(o) == {o.agents[k] : k \in 1..Len(o.agents)}

\* Variant where no agent saves its chat.
SaveChatNever(a) == FALSE

\* Variant where the human agent is created with the default saveChat.
SaveChatAlways(a) == TRUE

\* saveChat of the agent: false for the human agent (line 81), the default
\* (true) for the agents added at lines 87-88.
SaveChat(a) == a # humanAgent

\* The human agent is the escalation path (lines 78-83).
Escalates(a) == a = humanAgent

\* Variant of the store that puts the new pair in front of the others.
SavePairInFront(pairs, pair, window) ==
  LET all == <<pair>> \o pairs IN
  IF Len(all) > window THEN SubSeq(all, Len(all) - window + 1, Len(all)) ELSE all

\* The store appends the user+agent pair and keeps the last window pairs.
SavePair(pairs, pair, window) ==
  LET all == Append(pairs, pair) IN
  IF Len(all) > window THEN SubSeq(all, Len(all) - window + 1, Len(all)) ELSE all

\* The hand-off payload of the human agent.
EscalationPayload(sessionId, message) == <<sessionId, message>>

\* routeRequest(message, userId, sessionId) once the classifier has chosen
\* agent a and the agent has answered o: the loaded history, the new table
\* and escalation queue, and the output returned to the caller.  When the
\* table cannot be written (stored is false) the save is skipped and the
\* reply is returned all the same.
RouteRequest(hist, esc, a, message, userId, sessionId, o, stored) ==
  LET key == <<sessionId, a>> IN
  [loaded |-> hist[key],
   output |-> o,
   saved |-> SaveChat(a) /\ stored,
   escalations |-> IF Escalates(a)
                     THEN Append(esc, EscalationPayload(sessionId, message))
                     ELSE esc,
   history |-> IF SaveChat(a) /\ stored
                 THEN [hist EXCEPT ![key] = SavePair(@, <<message, o>>, HistoryWindow)]
                 ELSE hist]

(* --------------------------- initialisation ---------------------------- *)
NoOrchestrator == [id |-> 0, apiKey |-> "", agents |-> <<>>]

\* orchestrator.addAgent(agent).
AddAgent(o, agent) == [o EXCEPT !.agents = Append(@, agent)]

\* Variant with the human agent's registration left out.
RegisterAgentsNoHuman(o) ==
  AddAgent(AddAgent(o, orderManagementAgent), productInfoAgent)

\* Lines 87-89: the addAgent calls, in order.
RegisterAgents(o) ==
  AddAgent(AddAgent(AddAgent(o, orderManagementAgent), productInfoAgent), humanAgent)

\* Lines 63-76: new MultiAgentOrchestrator, its classifier holding apiKey.
MultiAgentOrchestrator(id, key) == [id |-> id, apiKey |-> key, agents |-> <<>>]

\* Lines 60-91: construction followed by the registration of the agents.
NewOrchestrator(id, key) == RegisterAgents(MultiAgentOrchestrator(id, key))

\* Variant of line 103 that tests the orchestrator instead of the promise:
\* initialization is started again while one is still in flight.
NeedsInitUnlessDone(promise) == promise # "fulfilled"

\* Line 103: if (!orchestratorPromise).
NeedsInit(promise) == promise = "null"

\* Line 56: if (!apiKey) is false.
CredentialCached(key) == key # ""

\* Line 60: if (!orchestrator).
OrchestratorMissing(o) == o.id = 0

\* Variant without the check of lines 20-22.
ModuleLoadUnchecked(queueUrl) == "loaded"

\* Lines 20-22: the module throws when QUEUE_URL is not set.
ModuleLoad(queueUrl) == IF queueUrl = "" THEN "crashed" ELSE "loaded"

RECURSIVE SumRecords(_, _)
SumRecords(hs, n) == IF n = 0 THEN 0 ELSE Len(hs[n].Records) + SumRecords(hs, n - 1)
TotalRecords == SumRecords(handlers, MaxInv)

\* The state of the process after the module was evaluated (lines 15-29,
\* 97) with an empty chat history table.
ProcessInit ==
  /\ env \in {"", QueueUrl}
  /\ modulePc = ModuleLoad(env)
  /\ apiKey = ""
  /\ orchestrator = NoOrchestrator
  /\ orchestratorPromise = "null"
  /\ ssmInFlight = 0
  /\ keySettled = <<>>
  /\ fetches = 0
  /\ ssmErrors = <<>>
  /\ constructed = 0
  /\ handlers = [h \in Invs |-> IdleHandler]
  /\ history = [k \in HistoryKeys |-> <<>>]
  /\ escalations = <<>>

\* Two different bodies that are routed and a text that is not JSON.
RoutedAndMalformed == {BodyValid, BodyNumber, BodyTruncated}

\* The same, and a message that the log line cannot print.
BatchBodies == RoutedAndMalformed \cup {BodyUnprintable}

\* An object without message and the JSON text null.
LoneBodies == {BodyNoMessage, BodyNull}

\* The host delivers few invocations with larger batches.
FewInvocations ==
  [invocations |-> MaxInv - 1, records |-> MaxRecords, bodies |-> BatchBodies,
   storeFails |-> FALSE]

\* The host delivers more, possibly concurrent, invocations with fewer records.
ManyInvocations ==
  [invocations |-> MaxInv, records |-> MaxRecords - 1, bodies |-> LoneBodies,
   storeFails |-> FALSE]

Init ==
  /\ ProcessInit
  /\ host \in {FewInvocations, ManyInvocations}

\* Lines 60-93 of initializeOrchestrator, reached with the credential key:
\* construct when there is no orchestrator yet, and fulfil the promise.
ConstructAndReturn(key) ==
  /\ apiKey' = key
  /\ IF OrchestratorMissing(orchestrator)
       THEN /\ orchestrator' = NewOrchestrator(constructed + 1, key)
            /\ constructed' = constructed + 1
       ELSE UNCHANGED <<orchestrator, constructed>>
  /\ orchestratorPromise' = "fulfilled"

\* initializeOrchestrator up to its first await (lines 54-57, 32-39): the
\* parameter store is queried unless the credential is cached.
InitializeOrchestrator ==
  IF ~CredentialCached(apiKey)
    THEN /\ fetches' = fetches + 1
         /\ ssmInFlight' = ssmInFlight + 1
         /\ orchestratorPromise' = "pending"
         /\ UNCHANGED <<apiKey, orchestrator, constructed>>
    ELSE /\ ConstructAndReturn(apiKey)
         /\ UNCHANGED <<fetches, ssmInFlight>>

\* Lines 99-107: the host invokes the handler with a batch; the handler
\* creates the promise when there is none and awaits it.
Invoke(h, batch) ==
  /\ modulePc = "loaded"
  /\ handlers[h].pc = "idle"
  /\ h > 1 => handlers[h - 1].pc # "idle"
  /\ h <= host.invocations
  /\ TotalRecords + Len(batch) <= host.records
  /\ \A k \in 1..Len(batch) : batch[k] \in host.bodies
  /\ LET init == NeedsInit(orchestratorPromise) IN
       /\ handlers' = [handlers EXCEPT ![h] =
            [@ EXCEPT !.pc = "awaitInit", !.Records = batch,
                      !.sawPromise = orchestratorPromise,
                      !.startedInit = init]]
       /\ IF init THEN InitializeOrchestrator
          ELSE UNCHANGED <<apiKey, orchestrator, orchestratorPromise,
                           ssmInFlight, fetches, constructed>>
  /\ UNCHANGED <<env, modulePc, keySettled, ssmErrors, history, escalations, host>>

KeyRejected == "rejected"

\* Lines 47-50: the catch block logs the error and throws, which rejects
\* the promise of getApiKeyFromSSM.
FetchFailed(error) ==
  /\ ssmErrors' = Append(ssmErrors, error)
  /\ keySettled' = Append(keySettled, KeyRejected)

\* Lines 39-46: ssmClient.send resolves with Parameter?.Value = v, and
\* getApiKeyFromSSM returns v or throws into its catch block.
SSMResolve(v) ==
  /\ ssmInFlight > 0
  /\ ssmInFlight' = ssmInFlight - 1
  /\ IF v = "" THEN FetchFailed("API key not found in SSM")
     ELSE keySettled' = Append(keySettled, v) /\ UNCHANGED ssmErrors
  /\ UNCHANGED <<env, modulePc, apiKey, orchestrator, orchestratorPromise,
                 constructed, fetches, handlers, history, escalations, host>>

\* Lines 39, 47-50: ssmClient.send rejects.
SSMReject ==
  /\ ssmInFlight > 0
  /\ ssmInFlight' = ssmInFlight - 1
  /\ FetchFailed("SSMError")
  /\ UNCHANGED <<env, modulePc, apiKey, orchestrator, orchestratorPromise,
                 constructed, fetches, handlers, history, escalations, host>>

\* Lines 57-93: the await of getApiKeyFromSSM in initializeOrchestrator
\* resumes in a later turn of the event loop: with the key it assigns the
\* credential, constructs and returns; with the error it rejects the promise
\* of initializeOrchestrator.
InitializeResume ==
  /\ keySettled # <<>>
  /\ keySettled' = Tail(keySettled)
  /\ IF Head(keySettled) = KeyRejected
       THEN /\ orchestratorPromise' = "rejected"
            /\ UNCHANGED <<apiKey, orchestrator, constructed>>
       ELSE ConstructAndReturn(Head(keySettled))
  /\ UNCHANGED <<env, modulePc, ssmInFlight, fetches, ssmErrors, handlers,
                 history, escalations, host>>

\* Variant that swallows the rejection of the initialization.
RejectedNever(promise) == FALSE

\* Line 107: the awaited promise is rejected.
Rejected(promise) == promise = "rejected"

\* Lines 107-116: the await of the settled promise returns or throws; then
\* the queue URL is checked and the loop starts.
ResumeAfterInit(h) ==
  /\ handlers[h].pc = "awaitInit"
  /\ orchestratorPromise \in {"fulfilled", "rejected"}
  /\ handlers' = [handlers EXCEPT ![h] =
       IF Rejected(orchestratorPromise)
         THEN [@ EXCEPT !.pc = "failed", !.result = Thrown(InitError)]
       ELSE IF env = ""
         THEN [@ EXCEPT !.pc = "failed", !.orchestrator = orchestrator.id,
                        !.result = Thrown(QueueUrlError)]
       ELSE ProcessFrom([@ EXCEPT !.orchestrator = orchestrator.id], 1)]
  /\ UNCHANGED <<env, modulePc, apiKey, orchestrator, orchestratorPromise,
                 ssmInFlight, keySettled, fetches, ssmErrors, constructed,
                 history, escalations, host>>

\* Variant of line 143 that does not await sqs.send: the loop goes on to
\* the next record while the send is still in flight.
SendNoAwait(hs, i, queueUrl, o) ==
  ProcessFrom([hs EXCEPT !.events = @ \o <<Event("routed", i, <<o>>),
                                           Event("send", i, SendMessageCommand(queueUrl, o))>>],
              i + 1)

\* Lines 129-143: the response is logged, the customer message is built,
\* sqs.send is called and awaited.
SendAndAwait(hs, i, queueUrl, o) ==
  [hs EXCEPT !.pc = "awaitSend",
             !.events = @ \o <<Event("routed", i, <<o>>),
                               Event("send", i, SendMessageCommand(queueUrl, o))>>]

\* Lines 124-143: routeRequest resolves.  The classifier chose the
\* registered agent a, the history of (sessionId, a) was loaded, the agent
\* answered o, the human agent published its hand-off, the exchange was
\* saved when the agent saves its chat; then the customer message is built
\* and sqs.send is called.
RouteResolve(h, a, o, stored) ==
  /\ handlers[h].pc = "awaitRoute"
  /\ a \in Registered(orchestrator)
  /\ o \in AgentOutputs(a)
  /\ stored \/ (host.storeFails /\ SaveChat(a))
  /\ LET i == handlers[h].idx
         args == handlers[h].events[Len(handlers[h].events)].val
         r == RouteRequest(history, escalations, a, args[1], args[2], args[3], o,
                           stored)
     IN
     /\ history' = r.history
     /\ escalations' = r.escalations
     /\ handlers' = [handlers EXCEPT ![h] =
          SendAndAwait([@ EXCEPT !.events = @ \o <<Event("agent", i, <<a>>),
                                                   Event("loaded", i, r.loaded),
                                                   Event("saved", i, <<r.saved>>)>>],
                       i, env, r.output)]
  /\ UNCHANGED <<env, modulePc, apiKey, orchestrator, orchestratorPromise,
                 ssmInFlight, keySettled, fetches, ssmErrors, constructed, host>>

\* Lines 124, 145-148: routeRequest rejects (the agent raised, or no agent
\* was identified while USE_DEFAULT_AGENT_IF_NONE_IDENTIFIED is false, line 73).
RouteReject(h) ==
  /\ handlers[h].pc = "awaitRoute"
  /\ handlers' = [handlers EXCEPT ![h] = OnRecordError(@, @.idx, "RouteError")]
  /\ UNCHANGED <<env, modulePc, apiKey, orchestrator, orchestratorPromise,
                 ssmInFlight, keySettled, fetches, ssmErrors, constructed,
                 history, escalations, host>>

\* Lines 143-144: sqs.send resolves; the message is in the queue.
SendResolve(h) ==
  /\ handlers[h].pc = "awaitSend"
  /\ LET i == handlers[h].idx
         cmd == handlers[h].events[Len(handlers[h].events)].val IN
     handlers' = [handlers EXCEPT ![h] =
       ProcessFrom([@ EXCEPT !.events = Append(@, Event("published", i, Tail(cmd)))],
                   i + 1)]
  /\ UNCHANGED <<env, modulePc, apiKey, orchestrator, orchestratorPromise,
                 ssmInFlight, keySettled, fetches, ssmErrors, constructed,
                 history, escalations, host>>

\* Lines 143, 145-148: sqs.send rejects.
SendReject(h) ==
  /\ handlers[h].pc = "awaitSend"
  /\ handlers' = [handlers EXCEPT ![h] = OnRecordError(@, @.idx, "SendError")]
  /\ UNCHANGED <<env, modulePc, apiKey, orchestrator, orchestratorPromise,
                 ssmInFlight, keySettled, fetches, ssmErrors, constructed,
                 history, escalations, host>>

Next ==
  \/ \E h \in Invs, batch \in Batches(host.records) : Invoke(h, batch)
  \/ \E v \in SSMValues : SSMResolve(v)
  \/ SSMReject
  \/ InitializeResume
  \/ \E h \in Invs : ResumeAfterInit(h)
  \/ \E h \in Invs, a \in Agents, o \in Outputs \cup {HumanAck}, stored \in BOOLEAN :
       RouteResolve(h, a, o, stored)
  \/ \E h \in Invs : RouteReject(h)
  \/ \E h \in Invs : SendResolve(h)
  \/ \E h \in Invs : SendReject(h)

Spec == Init /\ [][Next]_vars

\* Every external call eventually resolves or rejects, and the event loop
\* runs every continuation whose awaited promise has settled.
Fairness ==
  /\ WF_vars(SSMReject \/ \E v \in SSMValues : SSMResolve(v))
  /\ WF_vars(InitializeResume)
  /\ \A h \in Invs :
       /\ WF_vars(ResumeAfterInit(h))
       /\ WF_vars(RouteReject(h)
                    \/ \E a \in Agents, o \in Outputs \cup {HumanAck}, stored \in BOOLEAN :
                         RouteResolve(h, a, o, stored))
       /\ WF_vars(SendResolve(h) \/ SendReject(h))

\* What an earlier process left in the table for a saving agent: n pairs,
\* alternately for the message "m1" and for a missing message.
StoredPairs(a, n) ==
  [k \in 1..n |->
     <<IF k % 2 = 1 THEN "m1" ELSE Undefined, CHOOSE o \in AgentOutputs(a) : TRUE>>]

\* The process starts on a chat history table that earlier processes have
\* filled up to the window, or to one pair below it.
WindowInit ==
  /\ env \in {"", QueueUrl}
  /\ modulePc = ModuleLoad(env)
  /\ apiKey = ""
  /\ orchestrator = NoOrchestrator
  /\ orchestratorPromise = "null"
  /\ ssmInFlight = 0
  /\ keySettled = <<>>
  /\ fetches = 0
  /\ ssmErrors = <<>>
  /\ constructed = 0
  /\ handlers = [h \in Invs |-> IdleHandler]
  /\ \E n \in {MAX_MESSAGE_PAIRS_PER_AGENT - 1, MAX_MESSAGE_PAIRS_PER_AGENT} :
       history = [k \in HistoryKeys |->
                    IF SaveChat(k[2]) THEN StoredPairs(k[2], n) ELSE <<>>]
  /\ escalations = <<>>
  /\ host = [FewInvocations EXCEPT !.bodies = RoutedAndMalformed]

WindowSpec == WindowInit /\ [][Next]_vars

\* Two records of one session with different messages.
SessionBodies == {BodyValid, BodyNoMessage}

\* The process starts on a table one pair below the window, writes to the
\* table can fail, and the session's records arrive as the batch of one
\* invocation.
HistoryInit ==
  /\ env \in {"", QueueUrl}
  /\ modulePc = ModuleLoad(env)
  /\ apiKey = ""
  /\ orchestrator = NoOrchestrator
  /\ orchestratorPromise = "null"
  /\ ssmInFlight = 0
  /\ keySettled = <<>>
  /\ fetches = 0
  /\ ssmErrors = <<>>
  /\ constructed = 0
  /\ handlers = [h \in Invs |-> IdleHandler]
  /\ history = [k \in HistoryKeys |->
                  IF SaveChat(k[2])
                    THEN StoredPairs(k[2], MAX_MESSAGE_PAIRS_PER_AGENT - 1)
                    ELSE <<>>]
  /\ escalations = <<>>
  /\ host = [invocations |-> 1, records |-> MaxRecords,
             bodies |-> SessionBodies, storeFails |-> TRUE]

HistorySpec == HistoryInit /\ [][Next]_vars

\* One body that parses and is routed, one that fails at JSON.parse.
ParsedAndUnparsed == {BodyValid, BodyNull}

LiveInit ==
  /\ ProcessInit
  /\ host = [FewInvocations EXCEPT !.bodies = ParsedAndUnparsed]

FairSpec == LiveInit /\ [][Next]_vars /\ Fairness

(* ---------------------- reading the event traces ----------------------- *)
EventsOf(h, ev, i) ==
  SelectSeq(handlers[h].events, LAMBDA e : e.ev = ev /\ e.rec = i)

Count(h, ev, i) == Len(EventsOf(h, ev, i))

Invoked(h) == handlers[h].pc # "idle"

InLoop(h) == handlers[h].pc \in {"awaitRoute", "awaitSend", "done"}

RecordsOf(h) == 1..Len(handlers[h].Records)

(* ------------------------------- claims -------------------------------- *)

\* C1: single-flight initialization.  However many invocations start while
\* no initialization has finished, the parameter store is queried exactly
\* once, one orchestrator is constructed, only one invocation starts the
\* initialization, and every invocation that gets past the await holds that
\* one orchestrator instance.
C1_SingleFlight ==
  /\ fetches <= 1
  /\ constructed <= 1
  /\ Cardinality({h \in Invs : handlers[h].startedInit}) <= 1
  /\ (\E h \in Invs : Invoked(h)) => fetches = 1
  /\ \A h \in Invs : InLoop(h) =>
       /\ constructed = 1
       /\ orchestrator.id = 1
       /\ handlers[h].orchestrator = orchestrator.id
       /\ Len(orchestrator.agents) = 3

\* Two invocations started before the initialization finished, and both are
\* now processing with the one orchestrator.
C1_Witness ==
  /\ handlers[1].sawPromise = "null"
  /\ handlers[2].sawPromise = "pending"
  /\ InLoop(1) /\ InLoop(2)
  /\ handlers[1].orchestrator = 1 /\ handlers[2].orchestrator = 1
  /\ fetches = 1

\* C2: an initialization failure is not cached.  The failed invocation gets
\* the error, and an invocation that starts after the failure starts a new
\* initialization attempt (a new credential fetch).
C2_RetryAfterInitFailure ==
  \A h \in Invs :
    /\ (handlers[h].pc = "failed" /\ handlers[h].startedInit)
         => handlers[h].result = Thrown(InitError)
    /\ (h > 1 /\ handlers[1].pc = "failed" /\ Invoked(h)
           /\ handlers[h].sawPromise = "rejected")
         => handlers[h].startedInit


\* C3: per-record failure isolation.  When the handler has returned, every
\* record of the batch was attempted and ended exactly once, in an error or
\* in a publish; every record whose body parses was routed whatever
\* happened to the other records; a record without an error has exactly its
\* own routing output published; the handler never throws for a record.
C3_FailureIsolation ==
  \A h \in Invs :
    /\ handlers[h].pc = "done" =>
         \A i \in RecordsOf(h) :
           /\ Count(h, "error", i) + Count(h, "published", i) = 1
           /\ ~ParseRecord(handlers[h].Records[i]).threw => Count(h, "route", i) = 1
           /\ Count(h, "error", i) = 0 =>
                /\ Count(h, "routed", i) = 1
                /\ EventsOf(h, "published", i)[1].val
                     = <<"{", "destination", "customer", "message",
                         EventsOf(h, "routed", i)[1].val[1], "}">>
    /\ handlers[h].pc = "failed" => handlers[h].events = <<>>
    /\ handlers[h].result.kind = "threw" => handlers[h].result.message = <<InitError>>

\* A returned batch of two records: the first was not JSON and was logged
\* without being routed, the second was routed and published.
C3_Witness ==
  \E h \in Invs :
    /\ handlers[h].pc = "done"
    /\ handlers[h].Records = <<BodyTruncated, BodyValid>>
    /\ Count(h, "error", 1) = 1
    /\ EventsOf(h, "error", 1)[1].val = <<"SyntaxError">>
    /\ Count(h, "route", 1) = 0
    /\ Count(h, "published", 2) = 1

\* C4: at-least-once delivery.  When an invocation has returned normally
\* (the host treats the whole batch as consumed), every record of the batch
\* has had its customer message published.
C4_AtLeastOnce ==
  \A h \in Invs :
    handlers[h].pc = "done" =>
      \A i \in RecordsOf(h) : Count(h, "published", i) >= 1

\* C5: publish only on routing success.  For every record, a send is issued
\* if and only if routeRequest returned for it, at most once, after the
\* return, to the configured queue, and its body is the JSON text of
\* {destination: "customer", message: output} for that record's output.
C5_PublishOnlyOnRoutingSuccess ==
  \A h \in Invs : \A i \in RecordsOf(h) :
    /\ Count(h, "send", i) <= 1
    /\ Count(h, "send", i) = Count(h, "routed", i)
    /\ \A k \in 1..Len(handlers[h].events) :
         LET e == handlers[h].events[k] IN
         (e.ev = "send" /\ e.rec = i) =>
           /\ \E j \in 1..(k - 1) :
                LET r == handlers[h].events[j] IN
                /\ r.ev = "routed" /\ r.rec = i
                /\ JSONParse(Tail(e.val)).obj.message = r.val[1]
           /\ e.val[1] = QueueUrl
           /\ ~JSONParse(Tail(e.val)).threw
           /\ JSONParse(Tail(e.val)).obj.destination = "customer"
    /\ (\E e \in {handlers[h].events[k] : k \in 1..Len(handlers[h].events)} :
          e.ev = "error" /\ e.rec = i /\ e.val = <<"RouteError">>)
         => Count(h, "send", i) = 0

\* A batch where routing failed for record 1 (nothing sent for it) and
\* returned for record 2, whose message was sent.
C5_Witness ==
  \E h \in Invs :
    /\ Count(h, "error", 1) = 1
    /\ Count(h, "routed", 1) = 0
    /\ Count(h, "route", 1) = 1
    /\ Count(h, "send", 1) = 0
    /\ Count(h, "send", 2) = 1


\* C6: initialization failure blocks all routing.  When the credential is
\* unavailable the promise is rejected, every invocation that resumes fails
\* with the initialization error before any record is parsed, routed or
\* published; a record is only ever handled with an initialized
\* orchestrator and a fetched credential.
C6_InitFailureBlocksRouting ==
  /\ ssmErrors # <<>> =>
       \/ orchestratorPromise = "rejected"
       \/ orchestratorPromise = "pending" /\ keySettled = <<KeyRejected>>
  /\ orchestratorPromise = "rejected" =>
       /\ apiKey = ""
       /\ orchestrator.id = 0
       /\ \A h \in Invs :
            /\ handlers[h].pc \in {"idle", "awaitInit", "failed"}
            /\ handlers[h].events = <<>>
            /\ handlers[h].pc = "failed" => handlers[h].result = Thrown(InitError)
  /\ \A h \in Invs :
       (handlers[h].events # <<>> \/ InLoop(h)) =>
         /\ orchestratorPromise = "fulfilled"
         /\ apiKey # ""
         /\ orchestrator.id # 0
         /\ handlers[h].orchestrator = orchestrator.id

\* The parameter store returned no value; an invocation with a record to
\* process has failed with the initialization error.
C6_Witness ==
  /\ ssmErrors = <<"API key not found in SSM">>
  /\ \E h \in Invs :
       /\ handlers[h].pc = "failed"
       /\ Len(handlers[h].Records) >= 1
       /\ handlers[h].result = Thrown(InitError)

\* C7: credential caching.  The parameter store is queried at most once per
\* process, and once a credential is cached it never changes and no fetch
\* is issued again.
C7_CredentialCaching ==
  /\ [](fetches <= 1)
  /\ [][apiKey # "" => (apiKey' = apiKey /\ fetches' = fetches)]_vars

\* An invocation that started after the credential was cached is processing.
C7_Witness ==
  /\ apiKey # ""
  /\ fetches = 1
  /\ handlers[2].sawPromise = "fulfilled"
  /\ InLoop(2)

\* C8: orchestrator lifecycle.  The orchestrator is constructed at most
\* once, with a fetched credential; the three agents are registered before
\* any routeRequest call; once constructed it never changes.
C8_OrchestratorLifecycle ==
  /\ [](/\ constructed <= 1
        /\ orchestrator.id # 0 =>
             /\ apiKey # ""
             /\ orchestrator.apiKey = apiKey
             /\ fetches >= 1
        /\ \A h \in Invs :
             (\E k \in 1..Len(handlers[h].events) : handlers[h].events[k].ev = "route") =>
               /\ handlers[h].orchestrator # 0
               /\ handlers[h].orchestrator = orchestrator.id
               /\ orchestrator.agents
                    = <<"orderManagementAgent", "productInfoAgent", "Human Agent">>)
  /\ [][orchestrator.id # 0 => orchestrator' = orchestrator]_vars

\* A second invocation, started after construction, has called routeRequest.
C8_Witness ==
  /\ constructed = 1
  /\ handlers[2].sawPromise = "fulfilled"
  /\ Count(2, "route", 1) = 1
  /\ handlers[1].pc = "done"

\* C9: batch summary.  A handler that returns, returns "Processed K
\* messages" for its batch of K records, each of which ended in an error or
\* a publish; the handler throws only the initialization error.
C9_BatchSummary ==
  \A h \in Invs :
    LET K == Len(handlers[h].Records) IN
    /\ handlers[h].pc = "done" =>
         /\ handlers[h].result.kind = "returned"
         /\ \E n \in 0..K :
              /\ handlers[h].result.message = <<"Processed ", ToString(n), " messages">>
              /\ n = K
              /\ n = Cardinality({i \in RecordsOf(h) :
                        Count(h, "error", i) + Count(h, "published", i) >= 1})
    /\ handlers[h].result.kind = "returned" => handlers[h].pc = "done"
    /\ handlers[h].pc = "failed" =>
         /\ handlers[h].result = Thrown(InitError)
         /\ handlers[h].events = <<>>

\* A returned batch of two records with one failure and one publish.
C9_Witness ==
  \E h \in Invs :
    /\ handlers[h].result = [kind |-> "returned",
                             message |-> <<"Processed ", "2", " messages">>]
    /\ Count(h, "error", 2) = 1
    /\ Count(h, "published", 1) = 1

\* The payload shape {sessionId: string, message: string}.
WellShaped(body) ==
  LET p == JSONParse(body) IN
  /\ ~p.threw
  /\ ~p.isNull
  /\ p.obj.sessionId # Undefined
  /\ p.obj.message # Undefined

\* C10: malformed payloads are a per-record error.  For a record whose body
\* is not valid JSON or lacks sessionId or message, routeRequest is not
\* called, nothing is sent, and once the record is passed one error is
\* logged for it.
C10_MalformedIsRecordError ==
  \A h \in Invs : \A i \in RecordsOf(h) :
    ~WellShaped(handlers[h].Records[i]) =>
      /\ Count(h, "route", i) = 0
      /\ Count(h, "send", i) = 0
      /\ (InLoop(h) /\ handlers[h].idx > i) => Count(h, "error", i) = 1


(* ------------------- sequencing, logging and start-up ------------------- *)
Terminal(e) == e.ev \in {"error", "published"}

EventIndices(h) == 1..Len(handlers[h].events)

\* The records of h that have an event but no terminal event yet.
InFlight(h) ==
  {i \in RecordsOf(h) :
     /\ \E k \in EventIndices(h) : handlers[h].events[k].rec = i
     /\ \A k \in EventIndices(h) :
          handlers[h].events[k].rec = i => ~Terminal(handlers[h].events[k])}

\* C14: sequential processing inside one invocation.  Events of the records
\* appear in batch order; when routeRequest is called for a record, every
\* earlier record has already ended (published, or failed and logged); an
\* invocation never has two records in flight.
C14_SequentialProcessing ==
  \A h \in Invs :
    /\ Cardinality(InFlight(h)) <= 1
    /\ \A k \in EventIndices(h) : \A j \in 1..(k - 1) :
         handlers[h].events[j].rec <= handlers[h].events[k].rec
    /\ \A k \in EventIndices(h) :
         handlers[h].events[k].ev = "route" =>
           \A i \in 1..(handlers[h].events[k].rec - 1) :
             \E j \in 1..(k - 1) :
               /\ handlers[h].events[j].rec = i
               /\ Terminal(handlers[h].events[j])

\* Record 1 was published and routeRequest for record 2 is in flight.
C14_Witness ==
  \E h \in Invs :
    /\ handlers[h].pc = "awaitRoute"
    /\ handlers[h].idx = 2
    /\ Count(h, "published", 1) = 1
    /\ InFlight(h) = {2}

\* Error log entries attributed to invocation h: its per-record entries and,
\* for the invocation that started the initialization, the entry of the
\* credential fetch.
ErrorEntries(h) ==
  Len(SelectSeq(handlers[h].events, LAMBDA e : e.ev = "error"))
  + (IF handlers[h].startedInit THEN Len(ssmErrors) ELSE 0)

Unpublished(h) == {i \in RecordsOf(h) : Count(h, "published", i) = 0}

\* The per-record part of C15: at most one entry per record, one exactly for
\* a record that was passed without being published, written as the last
\* event of its record; a failed credential fetch is logged.
ErrorsLogged ==
  /\ orchestratorPromise = "rejected" => Len(ssmErrors) = 1
  /\ \A h \in Invs : \A i \in RecordsOf(h) :
       /\ Count(h, "error", i) <= 1
       /\ (handlers[h].pc = "done" \/ (InLoop(h) /\ handlers[h].idx > i)) =>
            (Count(h, "error", i) = 1 <=> Count(h, "published", i) = 0)
       /\ \A k \in EventIndices(h) :
            (handlers[h].events[k].ev = "error" /\ handlers[h].events[k].rec = i) =>
              \A j \in (k + 1)..Len(handlers[h].events) :
                handlers[h].events[j].rec > i

\* C15 as stated: no silent failure, and for every finished invocation the
\* number of its error log entries equals the number of its records that
\* were not published.
C15_NoSilentFailureEveryInvocation ==
  /\ ErrorsLogged
  /\ \A h \in Invs :
       handlers[h].pc \in {"done", "failed"} =>
         ErrorEntries(h) = Cardinality(Unpublished(h))

\* The entry of a failed record names the error that occurred, on each of
\* the error paths of the loop: the body is not JSON, a property of null is
\* read or the log line cannot print a value (nothing was routed), the
\* routing failed (nothing was sent), the publish failed.
ErrorPaths(h) ==
  \A i \in RecordsOf(h) :
    Count(h, "error", i) = 1 =>
      LET error == EventsOf(h, "error", i)[1].val[1]
          read == ParseRecord(handlers[h].Records[i])
      IN
      /\ error \in {"SyntaxError", "TypeError", "RouteError", "SendError"}
      /\ error \in {"SyntaxError", "TypeError"} <=> read.threw
      /\ read.threw => error = read.error /\ Count(h, "route", i) = 0
      /\ error = "RouteError" => Count(h, "route", i) = 1 /\ Count(h, "send", i) = 0
      /\ error = "SendError" => Count(h, "send", i) = 1

\* C15 (amended): no silent failure; every error is logged before
\* processing moves on, one entry per failed record, and for an invocation
\* that returns its summary the number of error log entries equals the
\* number of its records that were not published.  An invocation that
\* fails with the initialization error has processed none of its records
\* and written no per-record entry, and the failed fetch was logged once.
C15_NoSilentFailure ==
  /\ ErrorsLogged
  /\ \A h \in Invs :
       /\ ErrorPaths(h)
       /\ handlers[h].pc = "done" =>
            ErrorEntries(h) = Cardinality(Unpublished(h))
       /\ handlers[h].pc = "failed" =>
            /\ handlers[h].result = Thrown(InitError)
            /\ handlers[h].events = <<>>
            /\ Len(ssmErrors) = 1

\* A returned batch whose first record failed in routing and whose second
\* failed in publishing: two entries, nothing published.
C15_Witness ==
  \E h \in Invs :
    /\ handlers[h].pc = "done"
    /\ Count(h, "error", 1) = 1
    /\ EventsOf(h, "error", 1)[1].val = <<"RouteError">>
    /\ Count(h, "error", 2) = 1
    /\ EventsOf(h, "error", 2)[1].val = <<"SendError">>

\* C16: a missing queue destination is fatal at start-up.  Without
\* QUEUE_URL the module does not load: no handler is ever invoked, no
\* initialization, fetch, routeRequest call or publish takes place.
C16_MissingQueueUrlFatal ==
  /\ env = "" =>
       /\ modulePc = "crashed"
       /\ orchestratorPromise = "null"
       /\ fetches = 0
       /\ constructed = 0
       /\ orchestrator.id = 0
       /\ \A h \in Invs : handlers[h].pc = "idle" /\ handlers[h].events = <<>>
  /\ \A h \in Invs : Invoked(h) => (env # "" /\ modulePc = "loaded")

\* The process whose QUEUE_URL is not set, after the module was evaluated.
C16_Witness ==
  /\ env = ""
  /\ modulePc = "crashed"
  /\ \A h \in Invs : ~Invoked(h)

\* C18: outbound order preserves inbound order.  The publishes of an
\* invocation are in batch order; each is the reply to the routeRequest call
\* made for that record of the batch and carries that call's output; when
\* the handler has returned, the published records are exactly the records
\* that did not fail.
C18_OutboundOrder ==
  \A h \in Invs :
    LET pub == SelectSeq(handlers[h].events, LAMBDA e : e.ev = "published") IN
    /\ \A a \in 1..Len(pub) : \A b \in (a + 1)..Len(pub) : pub[a].rec < pub[b].rec
    /\ \A a \in 1..Len(pub) :
         LET i == pub[a].rec IN
         /\ i \in RecordsOf(h)
         /\ Count(h, "route", i) = 1
         /\ EventsOf(h, "route", i)[1].val
              = RouteRequestArgs(ParseRecord(handlers[h].Records[i]))
         /\ Count(h, "routed", i) = 1
         /\ JSONParse(pub[a].val).obj.message = EventsOf(h, "routed", i)[1].val[1]
    /\ handlers[h].pc = "done" =>
         {pub[a].rec : a \in 1..Len(pub)}
           = {i \in RecordsOf(h) : Count(h, "error", i) = 0}

\* A returned batch of two different records, both published.
C18_Witness ==
  \E h \in Invs :
    /\ handlers[h].pc = "done"
    /\ handlers[h].Records = <<BodyNumber, BodyValid>>
    /\ Count(h, "published", 1) = 1
    /\ Count(h, "published", 2) = 1


\* C17: handler termination.  Every invocation eventually either fails with
\* the initialization error or returns its summary, and when it has
\* returned each record of its batch was processed exactly once: one
\* terminal event per record, and at most one routeRequest call and one send.
C17_HandlerTermination ==
  /\ \A h \in Invs : Invoked(h) ~> (handlers[h].pc \in {"done", "failed"})
  /\ [](\A h \in Invs :
          /\ handlers[h].pc = "done" =>
               /\ handlers[h].idx = Len(handlers[h].Records) + 1
               /\ \A i \in RecordsOf(h) :
                    /\ Len(SelectSeq(handlers[h].events,
                                     LAMBDA e : e.rec = i /\ Terminal(e))) = 1
                    /\ Count(h, "route", i) <= 1
                    /\ Count(h, "send", i) <= 1
          /\ handlers[h].pc = "failed" =>
               /\ handlers[h].result = Thrown(InitError)
               /\ handlers[h].events = <<>>)

\* An invocation has returned after processing its two records, the first
\* of which was the JSON text null.
C17_Witness ==
  /\ handlers[1].pc = "done"
  /\ Len(handlers[1].Records) = 2
  /\ handlers[1].Records[1] = BodyNull
  /\ handlers[1].idx = 3
  /\ Count(1, "published", 2) = 1


(* ----------------------- history and escalation ------------------------ *)
ValOf(h, ev, i) == EventsOf(h, ev, i)[1].val

\* Invocation h takes the step in which routeRequest returns.
RouteReturns(h) ==
  /\ handlers[h].pc = "awaitRoute"
  /\ Len(handlers'[h].events) > Len(handlers[h].events)
  /\ \E k \in (Len(handlers[h].events) + 1)..Len(handlers'[h].events) :
       handlers'[h].events[k].ev = "agent"

\* The value of the event ev that h's step adds.
Added(h, ev) ==
  LET new == handlers'[h].events
      k == CHOOSE k \in (Len(handlers[h].events) + 1)..Len(new) : new[k].ev = ev
  IN new[k].val

PersistingAgents == {"orderManagementAgent", "productInfoAgent"}

\* C11 as stated: every routed exchange with a persisting agent grows the
\* history of (session, agent) by exactly one pair, and of two records of a
\* session routed one after the other to the same persisting agent the
\* history loaded for the second starts with the history loaded for the
\* first followed by the first's pair.
C11_GrowsByExactlyOnePair ==
  /\ [](\A h \in Invs : \A i \in RecordsOf(h) : \A j \in RecordsOf(h) :
          (/\ i < j
           /\ Count(h, "agent", i) = 1 /\ Count(h, "agent", j) = 1
           /\ ValOf(h, "agent", i) = ValOf(h, "agent", j)
           /\ ValOf(h, "agent", i)[1] \in PersistingAgents
           /\ ValOf(h, "route", i)[3] = ValOf(h, "route", j)[3])
          => LET first == Append(ValOf(h, "loaded", i),
                                 <<ValOf(h, "route", i)[1], ValOf(h, "routed", i)[1]>>)
                 second == ValOf(h, "loaded", j)
             IN /\ Len(second) >= Len(first)
                /\ SubSeq(second, 1, Len(first)) = first)
  /\ [][\A h \in Invs :
          (RouteReturns(h) /\ Added(h, "agent")[1] \in PersistingAgents) =>
            LET args == handlers[h].events[Len(handlers[h].events)].val
                key == <<args[3], Added(h, "agent")[1]>>
            IN /\ Added(h, "loaded") = history[key]
               /\ history'[key] = Append(history[key], <<args[1], Added(h, "routed")[1]>>)
               /\ \A other \in HistoryKeys \ {key} : history'[other] = history[other]]_vars

\* seq ends with the list tail.
EndsWith(seq, tail) ==
  /\ Len(tail) <= Len(seq)
  /\ SubSeq(seq, Len(seq) - Len(tail) + 1, Len(seq)) = tail

\* C11: session history ordering, with the window and the failing write.
\* When routeRequest returns from a persisting agent it has loaded the
\* history of (session, agent); when the exchange was saved, that history
\* has grown by exactly the user+agent pair while it held fewer than 10
\* pairs, and has lost its oldest pair for the new one when it held 10;
\* when the write failed it is unchanged; no other key changes.  Of two
\* records of a session routed one after the other to the same persisting
\* agent, the first saved, the history loaded for the second contains the
\* first's pair, and what it holds before that pair are, in order, the
\* latest entries that the first call loaded.
C11_SessionHistoryOrdering ==
  /\ [](\A h \in Invs : \A i \in RecordsOf(h) : \A j \in RecordsOf(h) :
          (/\ i < j
           /\ Count(h, "agent", i) = 1 /\ Count(h, "agent", j) = 1
           /\ ValOf(h, "agent", i) = ValOf(h, "agent", j)
           /\ ValOf(h, "agent", i)[1] \in PersistingAgents
           /\ ValOf(h, "route", i)[3] = ValOf(h, "route", j)[3]
           /\ ValOf(h, "saved", i) = <<TRUE>>)
          => LET before == ValOf(h, "loaded", i)
                 pair == <<ValOf(h, "route", i)[1], ValOf(h, "routed", i)[1]>>
                 second == ValOf(h, "loaded", j)
             IN \E k \in 1..Len(second) :
                  /\ second[k] = pair
                  /\ EndsWith(before, SubSeq(second, 1, k - 1)))
  /\ [][\A h \in Invs :
          (RouteReturns(h) /\ Added(h, "agent")[1] \in PersistingAgents) =>
            LET args == handlers[h].events[Len(handlers[h].events)].val
                key == <<args[3], Added(h, "agent")[1]>>
                pair == <<args[1], Added(h, "routed")[1]>>
            IN /\ Added(h, "loaded") = history[key]
               /\ history'[key] =
                    IF Added(h, "saved") = <<FALSE>> THEN history[key]
                    ELSE IF Len(history[key]) < 10 THEN Append(history[key], pair)
                    ELSE Append(Tail(history[key]), pair)
               /\ \A other \in HistoryKeys \ {key} : history'[other] = history[other]]_vars

\* The table held 9 pairs for the order management agent.  Two records of
\* session s1 were answered by that agent and saved: the second call loaded
\* the 9 pairs followed by the pair of the first, and the table now holds
\* pairs 2..9, the first's pair and the second's.
C11_Witness ==
  LET key == <<"s1", "orderManagementAgent">>
      old == StoredPairs("orderManagementAgent", MAX_MESSAGE_PAIRS_PER_AGENT - 1)
  IN
  \E h \in Invs :
    /\ handlers[h].Records = <<BodyNoMessage, BodyValid>>
    /\ Count(h, "agent", 1) = 1 /\ Count(h, "agent", 2) = 1
    /\ ValOf(h, "agent", 1) = <<"orderManagementAgent">>
    /\ ValOf(h, "agent", 2) = <<"orderManagementAgent">>
    /\ ValOf(h, "saved", 1) = <<TRUE>> /\ ValOf(h, "saved", 2) = <<TRUE>>
    /\ ValOf(h, "loaded", 1) = old
    /\ ValOf(h, "loaded", 2) = Append(old, <<Undefined, "o1">>)
    /\ history[key] = Tail(old) \o << <<Undefined, "o1">>, <<"m1", "o1">> >>

\* C12: history window bound.  The table never holds more than 10 pairs per
\* (session, agent); a save below the bound appends the pair, a save at the
\* bound drops the oldest pair and appends the new one.
C12_HistoryWindowBound ==
  /\ [](\A key \in HistoryKeys : Len(history[key]) <= 10)
  /\ [][\A key \in HistoryKeys :
          history'[key] # history[key] =>
            \E pair \in ({"m1", Undefined} \X (Outputs \cup {HumanAck})) :
              history'[key] = IF Len(history[key]) < 10
                                THEN Append(history[key], pair)
                                ELSE Append(Tail(history[key]), pair)]_vars

\* The table held 10 pairs for the order management agent; after two more
\* exchanges it holds pairs 3..10 of them followed by the two new pairs.
C12_Witness ==
  LET key == <<"s1", "orderManagementAgent">> IN
  /\ Len(history[key]) = 10
  /\ SubSeq(history[key], 1, 8) = SubSeq(StoredPairs("orderManagementAgent", 10), 3, 10)
  /\ Count(1, "agent", 1) = 1 /\ Count(1, "agent", 2) = 1
  /\ ValOf(1, "loaded", 1) = StoredPairs("orderManagementAgent", 10)
  /\ history[key][9] = <<ValOf(1, "route", 1)[1], "o1">>
  /\ history[key][10] = <<ValOf(1, "route", 2)[1], "o1">>

\* C13: escalation path.  When routeRequest returns from the human agent,
\* the escalation queue has received {sessionId, message} of the record, the
\* output is the static acknowledgement, which is what is sent to the
\* customer queue, and no history is changed.
C13_EscalationPath ==
  /\ [](\A h \in Invs : \A i \in RecordsOf(h) :
          (Count(h, "agent", i) = 1 /\ ValOf(h, "agent", i) = <<"Human Agent">>) =>
            /\ ValOf(h, "routed", i) = <<"ack">>
            /\ ValOf(h, "send", i)
                 = <<QueueUrl, "{", "destination", "customer", "message", "ack", "}">>
            /\ \E k \in 1..Len(escalations) :
                 escalations[k] = <<ValOf(h, "route", i)[3], ValOf(h, "route", i)[1]>>)
  /\ [][\A h \in Invs :
          (RouteReturns(h) /\ Added(h, "agent") = <<"Human Agent">>) =>
            LET args == handlers[h].events[Len(handlers[h].events)].val IN
            /\ history' = history
            /\ escalations' = Append(escalations, <<args[3], args[1]>>)]_vars

\* A record of session s1 was escalated: its hand-off is in the escalation
\* queue, the acknowledgement was published, the table is still empty.
C13_Witness ==
  \E h \in Invs :
    /\ Count(h, "agent", 1) = 1
    /\ ValOf(h, "agent", 1) = <<"Human Agent">>
    /\ Count(h, "published", 1) = 1
    /\ escalations = << <<"s1", "m1">> >>
    /\ \A key \in HistoryKeys : history[key] = <<>>

====
